---- MODULE Spec2Model ----
(***************************************************************************)
(* MaybeBox<T> (src/src/lib.rs): a value of type T kept in the space of a  *)
(* usize, written into the word itself when size_of::<T>() <=              *)
(* size_of::<usize>() and behind a Box<T> whose address is the word        *)
(* otherwise.                                                              *)
(*                                                                         *)
(* Memory is modelled at the level the code works at: the field `data` is  *)
(* a number below 256^WordBytes, a T written inline occupies its low       *)
(* SizeOf(T) bytes (little-endian overlay of &usize by &T) and leaves the  *)
(* other bytes as mem::uninitialized() left them; the heap is a map from   *)
(* addresses to blocks.  Two containers are modelled, named after the      *)
(* operands of PartialEq::eq.                                              *)
(***************************************************************************)
EXTENDS Integers, FiniteSets, Sequences, TLC

\* ------------------------------------------------------------- bounds
WordBytes == 2          \* size_of::<usize>() of the modelled target, in bytes
MaxAddr   == 2          \* heap addresses 1..MaxAddr (Box is never null)

\* The value every test of the crate stores.
TestVal == 123

Slots == {"self", "other"}
Addr  == 1..MaxAddr
Types == {"unit", "u8", "usize", "BoxU32", "String"}

Bytes(n) == 256 ^ n
WordMax  == Bytes(WordBytes) - 1

\* What mem::uninitialized() may leave in `data`: any word; sampled by the
\* two extreme bit patterns.
UninitWords == {0, WordMax}

\* mem::size_of::<T>() of the types the tests instantiate MaybeBox with.
\* String is three words (pointer, capacity, length); Box<u32> is one thin
\* pointer, hence exactly one word.
SizeOf(T) ==
  CASE T = "unit"   -> 0
    [] T = "u8"     -> 1
    [] T = "usize"  -> WordBytes
    [] T = "BoxU32" -> WordBytes
    [] T = "String" -> 3 * WordBytes

\* The logical values a T is given in the model.
Values(T) == IF T = "unit" THEN {0} ELSE {0, TestVal}

\* struct MaybeBox<T> { data: usize, _ph: PhantomData<T> }: the byte size of
\* each field, in declaration order.
PhantomDataTagged(T) == 1
PhantomDataSize(T) == 0
MaybeBoxFields(T) == <<SizeOf("usize"), PhantomDataSize(T)>>
SizeOfMaybeBox(T) ==
  LET f == MaybeBoxFields(T) IN f[1] + f[2]

\* ------------------------------------------------------------- state
VARIABLES
  st,       \* per slot: "none", "live", "consumed", "released" or "dropped"
  ty,       \* per slot: the T the container was instantiated with
  data,     \* per slot: the field MaybeBox::data
  heap,     \* Addr -> block
  ret,      \* per slot: what into_inner/unpack handed to the caller
  cur,      \* per slot: the logical value given to new, or last written
            \* through deref_mut (history)
  repr,     \* per slot: the representation new wrote ("inline"/"boxed")
  dc,       \* per slot: how often T's destructor ran on the slot's value
  ac,       \* per slot: heap blocks new allocated for the container
  fc,       \* per slot: releases of the container's heap block
  misread,  \* a word was read under another representation than written
  ub,       \* an invalid address was dereferenced or freed
  obs       \* the last operation and what it returned

vars == <<st, ty, data, heap, ret, cur, repr, dc, ac, fc, misread, ub, obs>>

FreeBlock == [live |-> FALSE, owner |-> "-", slot |-> "-", val |-> 0]
NoRet     == [kind |-> "none", bits |-> 0]
NoObs     == [op |-> "init", i |-> "-", j |-> "-", val |-> 0, flag |-> FALSE]

\* The part of the state the code's helpers read and write, as one record.
World == [heap |-> heap, repr |-> repr, dc |-> dc, ac |-> ac, fc |-> fc,
          misread |-> misread, ub |-> ub]

SetWorld(w) ==
  /\ heap' = w.heap
  /\ repr' = w.repr
  /\ dc' = w.dc
  /\ ac' = w.ac
  /\ fc' = w.fc
  /\ misread' = w.misread
  /\ ub' = w.ub

IsLive(h, a) == a \in Addr /\ h[a].live

\* ------------------------------------------------------------- heap
\* Box::new(t): a fresh block at address a holding t.
BoxNew(a, t, owner, i, w) ==
  [w EXCEPT !.heap[a] = [live |-> TRUE, owner |-> owner, slot |-> i, val |-> t]]

\* Deallocation of the block at a; freeing what is not allocated is undefined.
Dealloc(a, w) ==
  IF IsLive(w.heap, a)
    THEN [w EXCEPT !.heap[a] = FreeBlock]
    ELSE [w EXCEPT !.ub = TRUE]

\* Reading the T behind a Box<T>; u is what an invalid read produces.
BoxRead(a, w, u) == IF IsLive(w.heap, a) THEN w.heap[a].val ELSE u

\* The logical value of a T given its bits: Box<u32> is its pointee.
LogicalValue(T, t, w, u) == IF T = "BoxU32" THEN BoxRead(t, w, u) ELSE t

\* T's own destructor on the value of slot i (drop glue): counted for every
\* T; Box<u32> releases its pointee.
DropT(T, t, i, w) ==
  LET w1 == [w EXCEPT !.dc[i] = @ + 1]
  IN IF T = "BoxU32" THEN Dealloc(t, w1) ELSE w1

\* ------------------------------------------------------------- helpers
\* transmogrify_inline / transmogrify_inline_mut followed by a read: the
\* low SizeOf(T) bytes of the word.
transmogrify_inline(T, word) == word % Bytes(SizeOf(T))

\* transmogrify_boxed / transmogrify_boxed_mut: the whole word as a Box<T>.
transmogrify_boxed(word) == word

\* ptr::write through transmogrify_inline_mut: the low SizeOf(T) bytes are
\* replaced, the others kept.
write_inline(T, t, word) ==
  t + Bytes(SizeOf(T)) * (word \div Bytes(SizeOf(T)))

new_inline(T, t, word, i, w) ==
  [word |-> write_inline(T, t, word), w |-> [w EXCEPT !.repr[i] = "inline"]]

new_boxed(T, t, a, i, w) ==
  [word |-> a,
   w |-> BoxNew(a, t, "MaybeBox", i,
                [w EXCEPT !.repr[i] = "boxed", !.ac[i] = @ + 1])]

WholeWord(T, word) == word
get_inline(T, word) == transmogrify_inline(T, word)

get_boxed(word) == transmogrify_boxed(word)

\* A read of the word under representation `how`.
NoteRead(w, i, how) == [w EXCEPT !.misread = @ \/ (how # w.repr[i])]

\* The size test, as written at each place that repeats it.
StrictlySmaller(T) == SizeOf(T) < SizeOf("usize")
NeverInline(T) == FALSE
NewIsInline(T)      == SizeOf(T) <= SizeOf("usize")
UnpackIsInline(T)   == SizeOf(T) <= SizeOf("usize")
GetInnerIsInline(T) == SizeOf(T) <= SizeOf("usize")
DerefIsInline(T)    == SizeOf(T) <= SizeOf("usize")
DerefMutIsInline(T) == SizeOf(T) <= SizeOf("usize")

\* `*b` for b: Box<T>, by value: the T is moved out and the block released.
UnboxLeak(a, i, w, u) == [t |-> BoxRead(a, w, u), w |-> w]
Unbox(a, i, w, u) ==
  [t |-> BoxRead(a, w, u), w |-> Dealloc(a, [w EXCEPT !.fc[i] = @ + 1])]

\* MaybeBox::new
new(T, t, word, a, i, w) ==
  IF NewIsInline(T)
    THEN new_inline(T, t, word, i, w)
    ELSE new_boxed(T, t, a, i, w)

\* MaybeBox::get_inner
get_inner(T, word, i, w, u) ==
  IF GetInnerIsInline(T)
    THEN [t |-> get_inline(T, word), w |-> NoteRead(w, i, "inline")]
    ELSE Unbox(get_boxed(word), i, NoteRead(w, i, "boxed"), u)

\* Drop for MaybeBox: let _: T = self.get_inner();
DropNothing(T, word, i, w, u) == w
drop(T, word, i, w, u) ==
  LET r == get_inner(T, word, i, w, u) IN DropT(T, r.t, i, r.w)

\* mem::forget(self) at the end of into_inner: self leaves scope without its
\* destructor.  (Without it, drop(self) would run here.)
IntoInnerNoForget(T, word, i, w, u) == drop(T, word, i, w, u)
IntoInnerForget(T, word, i, w, u) == w

\* MaybeBox::into_inner
into_inner(T, word, i, w, u) ==
  LET r == get_inner(T, word, i, w, u)
  IN [ret |-> [kind |-> "T", bits |-> r.t],
      w |-> IntoInnerForget(T, word, i, r.w, u)]

\* mem::forget(self) at the end of unpack.
UnpackForget(T, word, i, w, u) == w

\* MaybeBox::unpack
unpack(T, word, i, w, u) ==
  LET r == IF UnpackIsInline(T)
             THEN [ret |-> [kind |-> "Inline", bits |-> get_inline(T, word)],
                   w |-> NoteRead(w, i, "inline")]
             ELSE [ret |-> [kind |-> "Boxed", bits |-> get_boxed(word)],
                   w |-> NoteRead(w, i, "boxed")]
  IN [ret |-> r.ret, w |-> UnpackForget(T, word, i, r.w, u)]

\* Deref::deref: the T the returned reference reads.
deref(T, word, i, w, u) ==
  IF DerefIsInline(T)
    THEN [t |-> transmogrify_inline(T, word), w |-> NoteRead(w, i, "inline")]
    ELSE LET a == transmogrify_boxed(word)
             w1 == NoteRead(w, i, "boxed")
         IN [t |-> BoxRead(a, w1, u),
             w |-> IF IsLive(w1.heap, a) THEN w1 ELSE [w1 EXCEPT !.ub = TRUE]]

\* DerefMut::deref_mut: the place the returned reference writes.
deref_mut(T, word, i, w) ==
  IF DerefMutIsInline(T)
    THEN [place |-> "word", addr |-> 0, w |-> NoteRead(w, i, "inline")]
    ELSE [place |-> "heap", addr |-> transmogrify_boxed(word),
          w |-> NoteRead(w, i, "boxed")]

\* PartialEq::eq / PartialEq::ne: *l == *r and *l != *r on the derefs.
RawWordEq(T, lw, rw, i, j, w, u) == [b |-> lw = rw, w |-> w]
eq(T, lw, rw, i, j, w, u) ==
  LET l == deref(T, lw, i, w, u)
      r == deref(T, rw, j, l.w, u)
  IN [b |-> LogicalValue(T, l.t, r.w, u) = LogicalValue(T, r.t, r.w, u),
      w |-> r.w]

ne(T, lw, rw, i, j, w, u) ==
  LET l == deref(T, lw, i, w, u)
      r == deref(T, rw, j, l.w, u)
  IN [b |-> LogicalValue(T, l.t, r.w, u) # LogicalValue(T, r.t, r.w, u),
      w |-> r.w]

\* ------------------------------------------------------------- Init
Init ==
  /\ st = [i \in Slots |-> "none"]
  /\ ty = [i \in Slots |-> "unit"]
  /\ data = [i \in Slots |-> 0]
  /\ heap = [a \in Addr |-> FreeBlock]
  /\ ret = [i \in Slots |-> NoRet]
  /\ cur = [i \in Slots |-> 0]
  /\ repr = [i \in Slots |-> "none"]
  /\ dc = [i \in Slots |-> 0]
  /\ ac = [i \in Slots |-> 0]
  /\ fc = [i \in Slots |-> 0]
  /\ misread = FALSE
  /\ ub = FALSE
  /\ obs = NoObs

Obs(op, i, j, val, flag) ==
  [op |-> op, i |-> i, j |-> j, val |-> val, flag |-> flag]

FreeAddrs == {a \in Addr : ~heap[a].live}

\* The caller's argument t: T for logical value v.  A Box<u32> is made by
\* Box::new(v) at address a1; every other T is its own bits.
MakeT(T, v, a1, i, w) ==
  IF T = "BoxU32"
    THEN [t |-> a1, w |-> BoxNew(a1, v, "T", i, w)]
    ELSE [t |-> v, w |-> w]

\* let mb = MaybeBox::new(t) / MaybeBox::from(t).  Box::new aborts the
\* process when no memory is left, so the step needs the addresses it uses.
Construct(op, i) ==
  /\ st[i] = "none"
  /\ \E T \in Types, uninit \in UninitWords, a1 \in Addr, a2 \in Addr :
       \E v \in Values(T) :
         /\ (T = "BoxU32") => a1 \in FreeAddrs
         /\ ~NewIsInline(T) => a2 \in FreeAddrs
         /\ (T = "BoxU32" /\ ~NewIsInline(T)) => a1 # a2
         /\ LET in == MakeT(T, v, a1, i, World)
                r  == new(T, in.t, uninit, a2, i, in.w)
            IN /\ data' = [data EXCEPT ![i] = r.word]
               /\ SetWorld(r.w)
         /\ ty' = [ty EXCEPT ![i] = T]
         /\ cur' = [cur EXCEPT ![i] = v]
         /\ obs' = Obs(op, i, "-", v, FALSE)
  /\ st' = [st EXCEPT ![i] = "live"]
  /\ UNCHANGED ret

New(i) == Construct("new", i)

\* From<T> for MaybeBox<T>: MaybeBox::new(t)
From(i) == Construct("from", i)

\* let t = mb.into_inner();
IntoInner(i) ==
  /\ st[i] = "live"
  /\ \E u \in UninitWords :
       LET r == into_inner(ty[i], data[i], i, World, u)
       IN /\ ret' = [ret EXCEPT ![i] = r.ret]
          /\ SetWorld(r.w)
          /\ obs' = Obs("into_inner", i, "-",
                        LogicalValue(ty[i], r.ret.bits, r.w, u), FALSE)
  /\ st' = [st EXCEPT ![i] = "consumed"]
  /\ UNCHANGED <<ty, data, cur>>

\* The T carried by an Unpacked<T>.
Carried(T, r, w, u) ==
  IF r.kind = "Boxed" THEN BoxRead(r.bits, w, u) ELSE r.bits

\* match mb.unpack() { ... }
Unpack(i) ==
  /\ st[i] = "live"
  /\ \E u \in UninitWords :
       LET r == unpack(ty[i], data[i], i, World, u)
       IN /\ ret' = [ret EXCEPT ![i] = r.ret]
          /\ SetWorld(r.w)
          /\ obs' = Obs("unpack", i, "-",
                        LogicalValue(ty[i], Carried(ty[i], r.ret, r.w, u), r.w, u),
                        FALSE)
  /\ st' = [st EXCEPT ![i] = "consumed"]
  /\ UNCHANGED <<ty, data, cur>>

\* drop(mb), or mb leaving scope while live.
Drop(i) ==
  /\ st[i] = "live"
  /\ \E u \in UninitWords : SetWorld(drop(ty[i], data[i], i, World, u))
  /\ st' = [st EXCEPT ![i] = "dropped"]
  /\ obs' = Obs("drop", i, "-", 0, FALSE)
  /\ UNCHANGED <<ty, data, ret, cur>>

\* The caller lets go of what into_inner/unpack returned: T's destructor
\* runs on it; a Box<T> then releases its block.
DropRet(i) ==
  /\ st[i] = "consumed"
  /\ \E u \in UninitWords :
       LET w == World
           r == ret[i]
           T == ty[i]
       IN SetWorld(IF r.kind = "Boxed"
                     THEN Dealloc(r.bits, DropT(T, BoxRead(r.bits, w, u), i, w))
                     ELSE DropT(T, r.bits, i, w))
  /\ st' = [st EXCEPT ![i] = "released"]
  /\ obs' = Obs("drop_ret", i, "-", 0, FALSE)
  /\ UNCHANGED <<ty, data, ret, cur>>

\* let x = &*mb;
Deref(i) ==
  /\ st[i] = "live"
  /\ \E u \in UninitWords :
       LET r == deref(ty[i], data[i], i, World, u)
       IN /\ SetWorld(r.w)
          /\ obs' = Obs("deref", i, "-", LogicalValue(ty[i], r.t, r.w, u), FALSE)
  /\ UNCHANGED <<st, ty, data, ret, cur>>

\* A write of the logical value v through the place p of a T.
WriteT(T, p, v, word, w, u) ==
  LET old == IF p.place = "word" THEN transmogrify_inline(T, word)
                                 ELSE BoxRead(p.addr, w, u)
      tgt == IF T = "BoxU32" THEN old ELSE p.addr
      inWord == p.place = "word" /\ T # "BoxU32"
  IN [word |-> IF inWord THEN write_inline(T, v, word) ELSE word,
      w |-> IF inWord THEN w
            ELSE IF IsLive(w.heap, tgt)
                   THEN [w EXCEPT !.heap[tgt].val = v]
                   ELSE [w EXCEPT !.ub = TRUE]]

\* *mb.deref_mut() changed in place to the logical value v (for Box<u32>:
\* **mb = v).
DerefMut(i) ==
  /\ st[i] = "live"
  /\ \E v \in Values(ty[i]), u \in UninitWords :
       LET p == deref_mut(ty[i], data[i], i, World)
           r == WriteT(ty[i], p, v, data[i], p.w, u)
       IN /\ data' = [data EXCEPT ![i] = r.word]
          /\ SetWorld(r.w)
          /\ cur' = [cur EXCEPT ![i] = v]
          /\ obs' = Obs("deref_mut", i, "-", v, FALSE)
  /\ UNCHANGED <<st, ty, ret>>

Compare(op, i, j) ==
  /\ st[i] = "live"
  /\ st[j] = "live"
  /\ ty[i] = ty[j]
  /\ \E u \in UninitWords :
       LET r == IF op = "eq"
                  THEN eq(ty[i], data[i], data[j], i, j, World, u)
                  ELSE ne(ty[i], data[i], data[j], i, j, World, u)
       IN /\ SetWorld(r.w)
          /\ obs' = Obs(op, i, j, 0, r.b)
  /\ UNCHANGED <<st, ty, data, ret, cur>>

\* a == b
Eq(i, j) == Compare("eq", i, j)

\* a != b
Ne(i, j) == Compare("ne", i, j)

Next ==
  \E i \in Slots :
    \/ New(i)
    \/ From(i)
    \/ IntoInner(i)
    \/ Unpack(i)
    \/ Drop(i)
    \/ DropRet(i)
    \/ Deref(i)
    \/ DerefMut(i)
    \/ \E j \in Slots : Eq(i, j)
    \/ \E j \in Slots : Ne(i, j)

Spec == Init /\ [][Next]_vars

\* ------------------------------------------------------------- claims
ContainerBlocks(i) ==
  {a \in Addr : heap[a].live /\ heap[a].owner = "MaybeBox" /\ heap[a].slot = i}

\* The logical value of what the caller received from slot i.
Returned(i) ==
  LogicalValue(ty[i], Carried(ty[i], ret[i], World, 0), World, 0)

\* C1: once a container has been consumed by into_inner or unpack its own
\* destructor never runs: T's destructor has not run while the caller holds
\* the result, has run exactly once after the caller let go of it, and no
\* block is released twice, inline or boxed.
C1_NoDoubleDestruction ==
  /\ ~ub
  /\ \A i \in Slots :
       /\ st[i] = "consumed" => dc[i] = 0
       /\ st[i] = "released" => dc[i] = 1
       /\ st[i] \in {"consumed", "released"} =>
            fc[i] = (IF repr[i] = "boxed" /\ ret[i].kind = "T" THEN 1 ELSE 0)

C1_Witness ==
  /\ st["self"] = "released" /\ repr["self"] = "boxed" /\ ret["self"].kind = "T"
  /\ st["other"] = "released" /\ repr["other"] = "inline"
  /\ ret["other"].kind = "Inline"
  /\ dc["self"] = 1 /\ dc["other"] = 1

\* C2: a container dropped without being consumed ran T's destructor exactly
\* once; if it was boxed, the block new allocated was released exactly once,
\* and if it was inline no block was released.
C2_DropRunsOnce ==
  \A i \in Slots :
    st[i] = "dropped" =>
      /\ dc[i] = 1
      /\ ~ub
      /\ ContainerBlocks(i) = {}
      /\ repr[i] = "boxed" => (ac[i] = 1 /\ fc[i] = 1)
      /\ repr[i] = "inline" => (ac[i] = 0 /\ fc[i] = 0)

C2_Witness ==
  /\ st["self"] = "dropped" /\ ty["self"] = "String" /\ fc["self"] = 1
  /\ st["other"] = "dropped" /\ ty["other"] = "u8" /\ dc["other"] = 1

\* C3: no operation ever reads the word under another representation than
\* the one new wrote it in, and that representation is the one the size
\* test size_of::<T>() <= size_of::<usize>() selects.
C3_DiscriminantStable ==
  /\ ~misread
  /\ \A i \in Slots :
       st[i] # "none" =>
         repr[i] = (IF SizeOf(ty[i]) <= SizeOf("usize") THEN "inline" ELSE "boxed")

C3_Witness ==
  /\ st["self"] = "dropped" /\ ty["self"] = "usize"
  /\ st["other"] = "consumed" /\ ty["other"] = "String"
  /\ ~misread

\* C4: the value into_inner returns is the value the container was given,
\* whether it was stored inline or boxed.
C4_RoundTrip ==
  \A i \in Slots :
    (st[i] = "consumed" /\ ret[i].kind = "T") =>
      /\ Returned(i) = cur[i]
      /\ ty[i] # "BoxU32" => ret[i].bits = cur[i]

C4_Witness ==
  /\ st["self"] = "consumed" /\ ret["self"].kind = "T" /\ ty["self"] = "u8"
  /\ cur["self"] = TestVal /\ ret["self"].bits = TestVal
  /\ st["other"] = "consumed" /\ ret["other"].kind = "T" /\ ty["other"] = "String"
  /\ cur["other"] = TestVal /\ ret["other"].bits = TestVal

\* C5: unpack yields Inline exactly when size_of::<T>() <= size_of::<usize>()
\* and Boxed otherwise, and the carried value is the one the container held.
C5_UnpackCorrect ==
  \A i \in Slots :
    (st[i] = "consumed" /\ ret[i].kind # "T") =>
      /\ ret[i].kind = (IF SizeOf(ty[i]) <= SizeOf("usize") THEN "Inline" ELSE "Boxed")
      /\ ret[i].kind = "Boxed" => IsLive(heap, ret[i].bits)
      /\ Returned(i) = cur[i]

C5_Witness ==
  /\ st["self"] = "consumed" /\ ret["self"].kind = "Inline" /\ ty["self"] = "usize"
  /\ st["other"] = "consumed" /\ ret["other"].kind = "Boxed"
  /\ cur["other"] = TestVal /\ Returned("other") = TestVal

\* C6 as stated: for T = Box<u32>, new takes the boxed path (a heap block is
\* allocated for the T and its address stored in the word).
C6_BoxU32TakesBoxedPath ==
  \A i \in Slots :
    (st[i] # "none" /\ ty[i] = "BoxU32") => (repr[i] = "boxed" /\ ac[i] = 1)

\* C6 as amended: for T = Box<u32>, which is exactly one word wide, new takes
\* the inline path: it allocates nothing and the word holds the Box's own
\* pointer; into_inner returns that same Box with its pointee unchanged.
C6_BoxU32TakesInlinePath ==
  \A i \in Slots :
    (st[i] # "none" /\ ty[i] = "BoxU32") =>
      /\ repr[i] = "inline"
      /\ ac[i] = 0
      /\ st[i] = "live" =>
           /\ IsLive(heap, data[i])
           /\ heap[data[i]].owner = "T"
           /\ heap[data[i]].val = cur[i]
      /\ (st[i] = "consumed" /\ ret[i].kind = "T") =>
           /\ ret[i].bits = data[i]
           /\ IsLive(heap, ret[i].bits)
           /\ heap[ret[i].bits].val = cur[i]

C6_Witness ==
  /\ st["self"] = "consumed" /\ ty["self"] = "BoxU32" /\ ret["self"].kind = "T"
  /\ cur["self"] = TestVal /\ Returned("self") = TestVal
  /\ obs.op = "into_inner"

\* C7: new allocates a block exactly when size_of::<T>() > size_of::<usize>();
\* for a zero-sized T neither construction nor destruction touches the heap.
C7_AllocIffLarger ==
  \A i \in Slots :
    st[i] # "none" =>
      /\ ac[i] = (IF SizeOf(ty[i]) > SizeOf("usize") THEN 1 ELSE 0)
      /\ SizeOf(ty[i]) = 0 =>
           /\ fc[i] = 0
           /\ {a \in Addr : heap[a].live /\ heap[a].slot = i} = {}

C7_Witness ==
  /\ st["self"] = "dropped" /\ ty["self"] = "unit" /\ ac["self"] = 0
  /\ st["other"] = "live" /\ ty["other"] = "String" /\ ac["other"] = 1

C9_EqResult ==
  /\ obs.op = "eq" => (obs.flag <=> (cur[obs.i] = cur[obs.j]))
  /\ obs.op = "ne" => (obs.flag <=> (cur[obs.i] # cur[obs.j]))

C9_EqStep ==
  (obs'.op \in {"eq", "ne"} /\ obs' # obs) =>
    UNCHANGED <<st, ty, data, heap, ret, cur, repr, dc, ac, fc, misread, ub>>

C9_EqualityPassthrough == [](C9_EqResult) /\ [][C9_EqStep]_vars

\* Equal values in words that differ.
C9_Witness ==
  /\ obs.op = "eq" /\ obs.flag /\ obs.i # obs.j
  /\ data[obs.i] # data[obs.j]

\* C10: the live blocks allocated by containers are exactly those of the live
\* boxed containers and of the Boxed results the caller still holds;
\* into_inner and drop released the container's block, unpack handed over
\* the very block new allocated without allocating or releasing.
C10_HeapAccounting ==
  /\ Cardinality({a \in Addr : heap[a].live /\ heap[a].owner = "MaybeBox"})
       = Cardinality({i \in Slots : st[i] = "live" /\ repr[i] = "boxed"})
         + Cardinality({i \in Slots : st[i] = "consumed" /\ ret[i].kind = "Boxed"})
  /\ \A i \in Slots :
       /\ (st[i] = "live" /\ repr[i] = "boxed") =>
            (ContainerBlocks(i) = {data[i]} /\ fc[i] = 0)
       /\ (st[i] = "consumed" /\ ret[i].kind = "Boxed") =>
            (ContainerBlocks(i) = {data[i]} /\ ret[i].bits = data[i]
             /\ ac[i] = 1 /\ fc[i] = 0)
       /\ (st[i] = "consumed" /\ ret[i].kind = "T") => ContainerBlocks(i) = {}
       /\ st[i] = "dropped" => ContainerBlocks(i) = {}

C10_Witness ==
  /\ st["self"] = "consumed" /\ ret["self"].kind = "Boxed"
  /\ st["other"] = "consumed" /\ ret["other"].kind = "T" /\ repr["other"] = "boxed"
  /\ fc["other"] = 1

====
